---- MODULE Spec2Model ----
(***************************************************************************)
(* Model of the grading-question client: Objective, GradingCriteria,       *)
(* RubricType, Rubric, ShortAnswerQuestion and RPCClient.                  *)
(*                                                                         *)
(* Python objects with identity (Rubric instances) live in `heap`; a       *)
(* ShortAnswerQuestion holds the heap index of its rubric.  Weights are    *)
(* floats in the program; here a weight is an integer number of 1/Scale    *)
(* units, so that 1.0 is Scale, 0.5 is Scale \div 2 and 0.25 is 1.         *)
(* A method is an operator that gives [ok, exc, val]: whether it returned, *)
(* the exception it raised, and the value returned (for a method that      *)
(* changes self: the object after the call, also when it raised).          *)
(* `calls` keeps every call with its arguments and outcome, `before` the   *)
(* objects as the latest call found them.                                  *)
(***************************************************************************)
EXTENDS Integers, Sequences, FiniteSets, TLC

VARIABLES
  heap,       \* the Rubric objects, by identity
  questions,  \* the ShortAnswerQuestion objects, in order of construction
  calls,      \* the calls made so far, the import first
  before      \* heap and questions as they were before the latest call

vars == <<heap, questions, calls, before>>

-----------------------------------------------------------------------------
(* Bounds *)

\* Calls the caller makes in one run.
MaxOps == 3
\* Largest weight magnitude tried on a bare GradingCriteria, in 1/Scale units.
MaxWeight == 8

-----------------------------------------------------------------------------
(* Values *)

\* weight: float -- fixed-point resolution of the model, 1.0 == Scale.
Scale == 4

None == "None"

Return(v) == [ok |-> TRUE, exc |-> "none", val |-> v]

Raise(e) == [ok |-> FALSE, exc |-> e, val |-> None]

\* A method that raised, with `self` as the raise left it.
RaiseLeaving(e, self) == [ok |-> FALSE, exc |-> e, val |-> self]

\* Members of the Objective enum, by name.
Objective ==
  {"FACTUAL", "CLARITY", "CREATIVITY", "ANALYSIS", "APPLICATION", "EVIDENCE",
   "REFLECTION"}

\* Objective.<member>.value: the wire label of a member.
value(objective) ==
  CASE objective = "FACTUAL" -> "factual understanding"
    [] objective = "CLARITY" -> "clarity of writing"
    [] objective = "CREATIVITY" -> "creativity"
    [] objective = "ANALYSIS" -> "analytical skills"
    [] objective = "APPLICATION" -> "application of knowledge"
    [] objective = "EVIDENCE" -> "use of evidence"
    [] objective = "REFLECTION" -> "self reflection"

\* Objective(label): lookup of a member by value, ValueError when none has it.
ObjectiveByValue(label) ==
  IF \E o \in Objective : value(o) = label
  THEN Return(CHOOSE o \in Objective : value(o) = label)
  ELSE Raise("ValueError")

RubricType ==
  {"FACTUAL_RUBRIC", "ANALYTICAL_RUBRIC", "CREATIVE_RUBRIC",
   "APPLICATION_RUBRIC", "COMPREHENSIVE_RUBRIC", "COMMUNICATION_RUBRIC",
   "CUSTOM_RUBRIC"}

\* RubricType.<member>._default_criteria: ordered (objective, weight) pairs.
_default_criteria(rubric_type) ==
  CASE rubric_type = "FACTUAL_RUBRIC" ->
         << <<"FACTUAL", Scale>>, <<"EVIDENCE", Scale>>, <<"CLARITY", Scale>> >>
    [] rubric_type = "ANALYTICAL_RUBRIC" ->
         << <<"ANALYSIS", Scale>>, <<"EVIDENCE", Scale>>,
            <<"REFLECTION", Scale>> >>
    [] rubric_type = "CREATIVE_RUBRIC" ->
         << <<"CREATIVITY", Scale>>, <<"CLARITY", Scale>>,
            <<"REFLECTION", Scale>> >>
    [] rubric_type = "APPLICATION_RUBRIC" ->
         << <<"APPLICATION", Scale>>, <<"ANALYSIS", Scale>>,
            <<"FACTUAL", Scale>> >>
    [] rubric_type = "COMPREHENSIVE_RUBRIC" ->
         << <<"FACTUAL", Scale>>, <<"ANALYSIS", Scale>>,
            <<"APPLICATION", Scale>>, <<"CREATIVITY", Scale>> >>
    [] rubric_type = "COMMUNICATION_RUBRIC" ->
         << <<"CLARITY", Scale>>, <<"REFLECTION", Scale>>,
            <<"CREATIVITY", Scale>> >>
    [] rubric_type = "CUSTOM_RUBRIC" -> << >>

-----------------------------------------------------------------------------
(* GradingCriteria *)

\* Seeded fault: validate_weight with `value < 0` for `value <= 0`.
validate_weight_allows_zero(value_) ==
  IF value_ < 0 THEN Raise("ValueError")
  ELSE IF (value_ * 2) % Scale # 0 THEN Raise("ValueError")
  ELSE Return(value_)

\* GradingCriteria.validate_weight
validate_weight(value_) ==
  IF value_ <= 0 THEN Raise("ValueError")
  ELSE IF (value_ * 2) % Scale # 0 THEN Raise("ValueError")
  ELSE Return(value_)

\* GradingCriteria.__init__: pydantic validates both fields (an Objective
\* field also accepts a member's value) and every failure is re-raised as
\* ValidationError.
GradingCriteria(objective, weight) ==
  LET o == IF objective \in Objective THEN Return(objective)
           ELSE ObjectiveByValue(objective)
      w == validate_weight(weight)
  IN  IF o.ok /\ w.ok
      THEN Return([objective |-> o.val, weight |-> w.val])
      ELSE Raise("ValidationError")

-----------------------------------------------------------------------------
(* Rubric *)

\* Rubric.__init__
Rubric(criteria, _type) == [criteria |-> criteria, type |-> _type]

\* Rubric.size
size(rubric) == Cardinality(DOMAIN rubric.criteria)

\* Rubric.rubric_type
rubric_type_of(rubric) == rubric.type

\* Rubric.empty
empty == Rubric(<< >>, "CUSTOM_RUBRIC")

\* Seeded fault: self.criteria.setdefault(objective, criteria), which keeps
\* an entry that is already there.
SetItem_keeps_existing(criteria, objective, c) ==
  [o \in (DOMAIN criteria) \cup {objective} |->
     IF o \in DOMAIN criteria THEN criteria[o] ELSE c]

\* self.criteria[objective] = criteria
SetItem(criteria, objective, c) ==
  [o \in (DOMAIN criteria) \cup {objective} |->
     IF o = objective THEN c ELSE criteria[o]]

\* Seeded fault: add_criteria that stores the pair first and validates it
\* afterwards.
add_criteria_stores_first(rubric, objective, weight) ==
  LET stored == Rubric(SetItem(rubric.criteria, objective,
                               [objective |-> objective, weight |-> weight]),
                       rubric.type)
      c == GradingCriteria(objective, weight)
  IN  IF objective \notin Objective
      THEN RaiseLeaving("ValidationError", stored)
      ELSE IF ~c.ok THEN RaiseLeaving(c.exc, stored)
      ELSE Return(stored)

\* Seeded fault: add_criteria that rebinds self.criteria to a dict holding
\* the new entry alone.
add_criteria_replaces_all(rubric, objective, weight) ==
  IF objective \notin Objective THEN RaiseLeaving("ValidationError", rubric)
  ELSE LET c == GradingCriteria(objective, weight)
       IN  IF ~c.ok THEN RaiseLeaving(c.exc, rubric)
           ELSE Return(Rubric(SetItem(<< >>, objective, c.val),
                              rubric.type))

\* Seeded fault: add_criteria without the isinstance guard, so that a str
\* that GradingCriteria accepts as the value of a member becomes the key.
add_criteria_unguarded(rubric, objective, weight) ==
  LET c == GradingCriteria(objective, weight)
  IN  IF ~c.ok THEN RaiseLeaving(c.exc, rubric)
      ELSE Return(Rubric(SetItem(rubric.criteria, objective, c.val),
                         rubric.type))

\* Rubric.add_criteria: how the call ends, and the rubric after it.
add_criteria(rubric, objective, weight) ==
  IF objective \notin Objective THEN RaiseLeaving("ValidationError", rubric)
  ELSE LET c == GradingCriteria(objective, weight)
       IN  IF ~c.ok THEN RaiseLeaving(c.exc, rubric)
           ELSE Return(Rubric(SetItem(rubric.criteria, objective, c.val),
                              rubric.type))

\* Seeded fault: serialize keyed by objective.name for objective.value.
serialize_by_name(rubric) ==
  [o \in DOMAIN rubric.criteria |-> rubric.criteria[o].weight]

\* Rubric.serialize
serialize(rubric) ==
  LET labels == {value(o) : o \in DOMAIN rubric.criteria}
  IN  [l \in labels |->
         rubric.criteria[CHOOSE o \in DOMAIN rubric.criteria : value(o) = l]
           .weight]

\* RubricType.criteria: one GradingCriteria per default pair, in order.
criteria_of(rubric_type) ==
  LET d == _default_criteria(rubric_type)
  IN  [i \in 1..Len(d) |-> GradingCriteria(d[i][1], d[i][2]).val]

\* Seeded fault: from_rubric_type that does not hand the type on to the
\* constructor.
from_rubric_type_untagged(rubric_type) ==
  LET cs == criteria_of(rubric_type)
  IN  Rubric([o \in {cs[i].objective : i \in 1..Len(cs)} |->
                cs[CHOOSE i \in 1..Len(cs) : cs[i].objective = o]],
             "CUSTOM_RUBRIC")

\* Rubric.from_rubric_type
from_rubric_type(rubric_type) ==
  LET cs == criteria_of(rubric_type)
      objs == {cs[i].objective : i \in 1..Len(cs)}
  IN  Rubric([o \in objs |->
                cs[CHOOSE i \in 1..Len(cs) :
                     /\ cs[i].objective = o
                     /\ \A j \in 1..Len(cs) : cs[j].objective = o => j <= i]],
             rubric_type)

\* A payload handed to from_dict: a mapping of labels to weights, or some
\* other object (which has no items()).
Mapping(items) == [mapping |-> TRUE, items |-> items]

NotAMapping == [mapping |-> FALSE, items |-> << >>]

\* Seeded fault: from_dict that drops the entries whose label is unknown.
from_dict_skips_unknown(payload) ==
  IF ~payload.mapping THEN Raise("ValidationError")
  ELSE LET known == {l \in DOMAIN payload.items : ObjectiveByValue(l).ok}
       IN  IF \E l \in known :
                 ~GradingCriteria(ObjectiveByValue(l).val, payload.items[l]).ok
           THEN Raise("ValidationError")
           ELSE Return(Rubric(
                  [o \in {ObjectiveByValue(l).val : l \in known} |->
                     GradingCriteria(o, payload.items[value(o)]).val],
                  "CUSTOM_RUBRIC"))

\* Rubric.from_dict
from_dict(payload) ==
  IF ~payload.mapping THEN Raise("ValidationError")   \* AttributeError
  ELSE IF \E l \in DOMAIN payload.items : ~ObjectiveByValue(l).ok
  THEN Raise("ValidationError")                       \* ValueError
  ELSE IF \E l \in DOMAIN payload.items :
            ~GradingCriteria(ObjectiveByValue(l).val, payload.items[l]).ok
  THEN Raise("ValidationError")
  ELSE LET objs == {ObjectiveByValue(l).val : l \in DOMAIN payload.items}
       IN  Return(Rubric(
             [o \in objs |->
                GradingCriteria(o, payload.items[value(o)]).val],
             "CUSTOM_RUBRIC"))

-----------------------------------------------------------------------------
(* ShortAnswerQuestion; `h` is the heap the question's rubric index points
   into. *)

\* Heap index of the Rubric.empty() object that the def statement of
\* ShortAnswerQuestion.__init__ evaluates once as the default of `rubric`.
DefaultRubric == 1

\* An argument of type Rubric (a heap index) or some other object.
RubricArg(id) == [isRubric |-> TRUE, id |-> id]

NotARubric == [isRubric |-> FALSE, id |-> 0]

\* ShortAnswerQuestion.__init__: stores the fields as given.
ShortAnswerQuestion(body, example_answer, rubric) ==
  [body |-> body, example_answer |-> example_answer, rubric |-> rubric]

\* Seeded fault: set_rubric without the isinstance guard.
set_rubric_unchecked(self, rubric) ==
  Return([self EXCEPT !.rubric = rubric.id])

\* ShortAnswerQuestion.set_rubric: how the call ends, and the question
\* after it.
set_rubric(self, rubric) ==
  IF ~rubric.isRubric THEN RaiseLeaving("ValidationError", self)
  ELSE Return([self EXCEPT !.rubric = rubric.id])

\* Seeded fault: _is_valid that tests the body alone.
_is_valid_ignores_answer(self, h) ==
  IF size(h[self.rubric]) = 0 THEN Raise("ValidationError")
  ELSE IF ~(self.body # "") THEN Raise("ValidationError")
  ELSE Return(None)

\* ShortAnswerQuestion._is_valid
_is_valid(self, h) ==
  IF size(h[self.rubric]) = 0 THEN Raise("ValidationError")
  ELSE IF ~(self.body # "" /\ self.example_answer # "")
  THEN Raise("ValidationError")
  ELSE Return(None)

\* ShortAnswerQuestion._serialize
_serialize(self, h) ==
  [question |-> self.body,
   example_answer |-> self.example_answer,
   rubric |-> serialize(h[self.rubric])]

\* ShortAnswerQuestion.from_dict: the three lookups in argument order, then
\* Rubric.from_dict of the rubric entry; on success the fields of the new
\* question and its new Rubric object.
ShortAnswerQuestion_from_dict(payload_) ==
  IF "body" \notin DOMAIN payload_ THEN Raise("KeyError")
  ELSE IF "example_answer" \notin DOMAIN payload_ THEN Raise("KeyError")
  ELSE IF "rubric" \notin DOMAIN payload_ THEN Raise("KeyError")
  ELSE LET r == from_dict(Mapping(payload_.rubric))
       IN  IF ~r.ok THEN r
           ELSE Return([body |-> payload_.body,
                        example_answer |-> payload_.example_answer,
                        rubric |-> r.val])

-----------------------------------------------------------------------------
(* RPCClient *)

RaiseWith(e, detail) == [ok |-> FALSE, exc |-> e, val |-> detail]

\* RPCClient.payload
payload(method, params) ==
  [id |-> 1, jsonrpc |-> "2.0", method |-> method, params |-> params]

\* What requests.post and response.json() give back: a transport failure,
\* or the decoded body.
TransportFailure == [transport |-> FALSE, data |-> << >>]

Decoded(data) == [transport |-> TRUE, data |-> data]

\* Seeded fault: parse_response that looks for the result first.
parse_response_prefers_result(response_data) ==
  IF "result" \in DOMAIN response_data THEN Return(response_data.result)
  ELSE IF "error" \in DOMAIN response_data
  THEN RaiseWith("Exception", response_data.error)
  ELSE Raise("KeyError")

\* RPCClient.parse_response
parse_response(response_data) ==
  IF "error" \in DOMAIN response_data
  THEN RaiseWith("Exception", response_data.error)
  ELSE IF "result" \notin DOMAIN response_data THEN Raise("KeyError")
  ELSE Return(response_data.result)

\* Seeded fault: _make_request that posts again when the first response
\* holds an error.
_make_request_retries(method, params, response) ==
  LET p == payload(method, params)
      r == IF ~response.transport THEN Raise("RequestException")
           ELSE parse_response(response.data)
  IN  [sent |-> IF r.ok THEN << p >> ELSE << p, p >>, res |-> r]

\* RPCClient._make_request: posts once, then parses.
_make_request(method, params, response) ==
  LET sent == << payload(method, params) >>
      r == IF ~response.transport THEN Raise("RequestException")
           ELSE parse_response(response.data)
  IN  [sent |-> sent, res |-> r]

\* RPCClient.short_answer
short_answer(data, answer, response) ==
  LET m == _make_request("short_answer", <<data, answer>>, response)
      r == IF ~m.res.ok THEN m.res
           ELSE IF "feedback" \notin DOMAIN m.res.val THEN Raise("KeyError")
           ELSE IF "score" \notin DOMAIN m.res.val THEN Raise("KeyError")
           ELSE Return(<<m.res.val.feedback, m.res.val.score>>)
  IN  [sent |-> m.sent, res |-> r]

\* Seeded fault: grade that runs the validation gate before it serializes.
grade_validates_first(self, h, answer, response) ==
  IF ~_is_valid(self, h).ok
  THEN [sent |-> << >>, res |-> _is_valid(self, h)]
  ELSE short_answer(_serialize(self, h), answer, response)

\* ShortAnswerQuestion.grade
grade(self, h, answer, response) ==
  short_answer(_serialize(self, h), answer, response)

-----------------------------------------------------------------------------
(* Inputs the caller tries *)

\* Weights of a bare GradingCriteria: -2.0 .. 2.0 in steps of 0.25.
CriteriaWeights == (0 - MaxWeight)..MaxWeight

\* Objective arguments of a bare GradingCriteria.
CriteriaObjectives == {"FACTUAL", "EVIDENCE"}

\* Weights given to add_criteria: -0.25, 0, 0.25, 0.5, 0.75, 1.0.
Weights == {0 - 1, 0, 1, Scale \div 2, Scale - 1, Scale}

\* Objective arguments of add_criteria: a member, a str that is the label of
\* a member and a str that is neither.
ObjectiveInputs == {"FACTUAL", "factual understanding", "not an objective"}

Bodies == {"", "What is the capital of Australia?"}

Answers == {"", "Canberra"}

GradeAnswers == {"Sydney"}

\* Presets the caller builds questions from.
QuestionRubricTypes == {"FACTUAL_RUBRIC", "CUSTOM_RUBRIC"}

\* Payloads the caller writes by hand.
PayloadInputs ==
  {NotAMapping,
   Mapping(<< >>),
   Mapping([l \in {"factual understanding"} |-> Scale]),
   Mapping([l \in {"factual understanding", "creativity"} |->
              IF l = "creativity" THEN Scale \div 2 ELSE Scale]),
   Mapping([l \in {"factual understanding"} |-> 1]),
   Mapping([l \in {"factual understanding", "creativity"} |->
              IF l = "creativity" THEN 0 ELSE Scale]),
   Mapping([l \in {"not an objective"} |-> Scale]),
   Mapping([l \in {"factual understanding", "not an objective"} |-> Scale]),
   Mapping([l \in {"FACTUAL"} |-> Scale])}

\* Question payloads the caller writes by hand, keyed as from_dict reads
\* them: one with a valid rubric, one with an empty rubric and one with a
\* weight of 0.25.
QuestionPayloads ==
  {[body |-> "What is the capital of Australia?",
    example_answer |-> "Canberra",
    rubric |-> [l \in {"factual understanding", "clarity of writing"} |->
                  IF l = "clarity of writing" THEN Scale \div 2 ELSE Scale]],
   [body |-> "", example_answer |-> "Canberra", rubric |-> << >>],
   [body |-> "What is the capital of Australia?",
    example_answer |-> "Canberra",
    rubric |-> [l \in {"factual understanding"} |-> 1]]}

Responses ==
  {TransportFailure,
   Decoded([error |-> "bad request"]),
   Decoded([error |-> [code |-> 400, message |-> "bad request"],
            result |-> [feedback |-> "good job", score |-> 9]]),
   Decoded([result |-> [feedback |-> "good job", score |-> 9]]),
   Decoded([result |-> [feedback |-> "good job"]]),
   Decoded([result |-> [score |-> 9]]),
   Decoded([status |-> "ok"])}

\* Rubric objects the caller holds a name for: those it created.
CallerRubrics == 2..Len(heap)

Outcome(res) == IF res.ok THEN "ok" ELSE res.exc

\* The record of a call: the operation, the question and the rubric it acted
\* on (0 when none), its arguments, how it ended, what it returned, what the
\* exception it raised carries and the requests it posted.
Call(op, q, r, args, res, sent) ==
  [op |-> op, q |-> q, r |-> r, args |-> args, outcome |-> Outcome(res),
   ret |-> IF res.ok THEN res.val ELSE None,
   error |-> IF res.ok THEN None ELSE res.val, sent |-> sent]

\* The latest call and the one before it.
last == calls[Len(calls)]

prev == calls[Len(calls) - 1]

\* The calls made since the import.
nops == Len(calls) - 1

\* (question, rubric) pairs: the rubric was handed to the question's
\* constructor or to its set_rubric.
Passed ==
  {<<calls[i].q, calls[i].r>> :
     i \in {k \in 1..Len(calls) :
              \/ calls[k].op = "ShortAnswerQuestion.from_rubric_type"
              \/ calls[k].op = "ShortAnswerQuestion"
                   /\ calls[k].args.rubric = "given"
              \/ calls[k].op = "set_rubric" /\ calls[k].args.rubric.isRubric}}

-----------------------------------------------------------------------------
(* State machine *)

\* After import: the def statement of ShortAnswerQuestion.__init__ has
\* evaluated its default Rubric.empty() once.
Init ==
  /\ heap = << empty >>
  /\ questions = << >>
  /\ calls = << Call("import", 0, 0, << >>, Return(None), << >>) >>
  /\ before = [heap |-> << >>, questions |-> << >>]

\* The call is added to the calls made.
Log(call) == calls' = Append(calls, call)

\* Every call of the caller is counted, and what it found is kept.
Tick ==
  /\ nops < MaxOps
  /\ before' = [heap |-> heap, questions |-> questions]

\* GradingCriteria(objective, weight)
NewGradingCriteria ==
  /\ Tick
  /\ \E o \in CriteriaObjectives, w \in CriteriaWeights :
       /\ Log(Call("GradingCriteria", 0, 0,
                       [objective |-> o, weight |-> w],
                       GradingCriteria(o, w), << >>))
       /\ UNCHANGED <<heap, questions>>

\* Rubric.empty()
RubricEmpty ==
  /\ Tick
  /\ heap' = Append(heap, empty)
  /\ Log(Call("Rubric.empty", 0, Len(heap) + 1, << >>, Return(None),
              << >>))
  /\ UNCHANGED questions

\* Rubric.from_rubric_type(rubric_type)
RubricFromRubricType ==
  /\ Tick
  /\ \E t \in RubricType :
       /\ heap' = Append(heap, from_rubric_type(t))
       /\ Log(Call("Rubric.from_rubric_type", 0, Len(heap) + 1,
                       [rubric_type |-> t], Return(None), << >>))
       /\ UNCHANGED questions

\* Rubric.from_dict(payload), on a hand-written payload or on
\* rubric.serialize() of a rubric the caller holds.
RubricFromDict ==
  /\ Tick
  /\ \E p \in PayloadInputs \cup
                {Mapping(serialize(heap[r])) : r \in CallerRubrics} :
       LET res == from_dict(p)
       IN  /\ heap' = IF res.ok THEN Append(heap, res.val) ELSE heap
           /\ Log(Call("Rubric.from_dict", 0,
                           IF res.ok THEN Len(heap) + 1 ELSE 0,
                           [payload |-> p],
                           IF res.ok THEN Return(None) ELSE Raise(res.exc),
                           << >>))
           /\ UNCHANGED questions

\* rubric.add_criteria(objective, weight) on a rubric the caller holds
RubricAddCriteria ==
  /\ Tick
  /\ \E r \in CallerRubrics, o \in ObjectiveInputs, w \in Weights :
       LET res == add_criteria(heap[r], o, w)
       IN  /\ heap' = [heap EXCEPT ![r] = res.val]
           /\ Log(Call("add_criteria", 0, r,
                           [objective |-> o, weight |-> w],
                           IF res.ok THEN Return(None) ELSE Raise(res.exc),
                           << >>))
           /\ UNCHANGED questions

\* rubric.serialize()
RubricSerialize ==
  /\ Tick
  /\ \E r \in CallerRubrics :
       /\ Log(Call("serialize", 0, r, << >>, Return(serialize(heap[r])),
                       << >>))
       /\ UNCHANGED <<heap, questions>>

\* ShortAnswerQuestion(body, example_answer): rubric left to its default
ConstructDefault ==
  /\ Tick
  /\ \E b \in Bodies, e \in Answers :
       /\ questions' =
            Append(questions, ShortAnswerQuestion(b, e, DefaultRubric))
       /\ Log(Call("ShortAnswerQuestion", Len(questions) + 1,
                       DefaultRubric,
                       [body |-> b, example_answer |-> e, rubric |-> "omitted"],
                       Return(None), << >>))
       /\ UNCHANGED heap

\* ShortAnswerQuestion(body, example_answer, rubric=r)
ConstructWithRubric ==
  /\ Tick
  /\ \E b \in Bodies, e \in Answers, r \in CallerRubrics :
       /\ questions' = Append(questions, ShortAnswerQuestion(b, e, r))
       /\ Log(Call("ShortAnswerQuestion", Len(questions) + 1, r,
                       [body |-> b, example_answer |-> e, rubric |-> "given"],
                       Return(None), << >>))
       /\ UNCHANGED heap

\* ShortAnswerQuestion.from_rubric_type(body, example_answer, rubric_type)
QuestionFromRubricType ==
  /\ Tick
  /\ \E b \in Bodies, e \in Answers, t \in QuestionRubricTypes :
       /\ heap' = Append(heap, from_rubric_type(t))
       /\ questions' =
            Append(questions, ShortAnswerQuestion(b, e, Len(heap) + 1))
       /\ Log(Call("ShortAnswerQuestion.from_rubric_type",
                       Len(questions) + 1, Len(heap) + 1,
                       [body |-> b, example_answer |-> e, rubric_type |-> t],
                       Return(None), << >>))

\* question.add_criteria(objective, weight)
QuestionAddCriteria ==
  /\ Tick
  /\ \E q \in 1..Len(questions), o \in ObjectiveInputs, w \in Weights :
       LET r == questions[q].rubric
           res == add_criteria(heap[r], o, w)
       IN  /\ heap' = [heap EXCEPT ![r] = res.val]
           /\ Log(Call("add_criteria", q, r,
                           [objective |-> o, weight |-> w],
                           IF res.ok THEN Return(None) ELSE Raise(res.exc),
                           << >>))
           /\ UNCHANGED questions

\* question.set_rubric(rubric)
SetRubric ==
  /\ Tick
  /\ \E q \in 1..Len(questions),
        a \in {NotARubric} \cup {RubricArg(r) : r \in CallerRubrics} :
       LET res == set_rubric(questions[q], a)
       IN  /\ questions' = [questions EXCEPT ![q] = res.val]
           /\ Log(Call("set_rubric", q, a.id, [rubric |-> a],
                           IF res.ok THEN Return(None) ELSE Raise(res.exc),
                           << >>))
           /\ UNCHANGED heap

\* question._is_valid()
IsValid ==
  /\ Tick
  /\ \E q \in 1..Len(questions) :
       /\ Log(Call("_is_valid", q, questions[q].rubric, << >>,
                       _is_valid(questions[q], heap), << >>))
       /\ UNCHANGED <<heap, questions>>

\* question._serialize()
Serialize ==
  /\ Tick
  /\ \E q \in 1..Len(questions) :
       /\ Log(Call("_serialize", q, questions[q].rubric, << >>,
                       Return(_serialize(questions[q], heap)), << >>))
       /\ UNCHANGED <<heap, questions>>

\* question.grade(answer), the server answering with `resp`
Grade ==
  /\ Tick
  /\ \E q \in 1..Len(questions), a \in GradeAnswers, resp \in Responses :
       LET g == grade(questions[q], heap, a, resp)
       IN  /\ Log(Call("grade", q, questions[q].rubric,
                           [answer |-> a, response |-> resp], g.res, g.sent))
           /\ UNCHANGED <<heap, questions>>

\* ShortAnswerQuestion.from_dict(payload), on a hand-written payload or on
\* question._serialize() of a question the caller holds
QuestionFromDict ==
  /\ Tick
  /\ \E p \in QuestionPayloads \cup
                {_serialize(questions[q], heap) : q \in 1..Len(questions)} :
       LET res == ShortAnswerQuestion_from_dict(p)
       IN  /\ heap' = IF res.ok THEN Append(heap, res.val.rubric) ELSE heap
           /\ questions' =
                IF res.ok
                THEN Append(questions,
                            ShortAnswerQuestion(res.val.body,
                                                res.val.example_answer,
                                                Len(heap) + 1))
                ELSE questions
           /\ Log(Call("ShortAnswerQuestion.from_dict",
                           IF res.ok THEN Len(questions) + 1 ELSE 0,
                           IF res.ok THEN Len(heap) + 1 ELSE 0,
                           [payload |-> p],
                           IF res.ok THEN Return(None) ELSE Raise(res.exc),
                           << >>))

\* A caller that builds bare criteria.
NextCriteria ==
  \/ NewGradingCriteria

SpecCriteria == Init /\ [][NextCriteria]_vars

\* A caller that builds and changes rubrics.
NextRubric ==
  \/ RubricEmpty
  \/ RubricFromRubricType
  \/ RubricFromDict
  \/ RubricAddCriteria
  \/ RubricSerialize

SpecRubric == Init /\ [][NextRubric]_vars

\* A caller that builds, changes and grades questions.
Next ==
  \/ RubricEmpty
  \/ RubricFromRubricType
  \/ ConstructDefault
  \/ ConstructWithRubric
  \/ QuestionFromRubricType
  \/ RubricAddCriteria
  \/ QuestionAddCriteria
  \/ SetRubric
  \/ IsValid
  \/ Serialize
  \/ Grade

Spec == Init /\ [][Next]_vars

\* A caller that writes questions out and reads them back.
NextWire ==
  \/ QuestionFromRubricType
  \/ QuestionAddCriteria
  \/ Serialize
  \/ QuestionFromDict

SpecWire == Init /\ [][NextWire]_vars

-----------------------------------------------------------------------------
(* Properties *)

\* The weight constraint of the data model: greater than 0 and a multiple
\* of 0.5.
ValidWeight(w) == w > 0 /\ (2 * w) % Scale = 0

\* The labels of the Objective vocabulary.
Labels == {value(o) : o \in Objective}

\* Two rubrics hold the same objectives with the same weights.
SameCriteria(a, b) ==
  /\ DOMAIN a.criteria = DOMAIN b.criteria
  /\ \A o \in DOMAIN a.criteria : a.criteria[o].weight = b.criteria[o].weight

\* Rubric r was made by Rubric.from_rubric_type.
FromPreset(r) ==
  \E i \in 1..Len(calls) :
    calls[i].op = "Rubric.from_rubric_type" /\ calls[i].r = r

\* The caller handed one Rubric object to both questions.
SharedByCaller(q1, q2) ==
  \E r \in 1..Len(heap) : <<q1, r>> \in Passed /\ <<q2, r>> \in Passed

\* p is the wire payload of question q: exactly body, example_answer and
\* rubric, the rubric serialized.
IsWirePayload(p, q) ==
  /\ DOMAIN p = {"body", "example_answer", "rubric"}
  /\ p.body = q.body
  /\ p.example_answer = q.example_answer
  /\ p.rubric = serialize(heap[q.rubric])

\* C1: what _serialize returns, and what grade puts first in the params of
\* its request, is the mapping with exactly the keys body, example_answer and
\* rubric, holding the question's body, its example answer and
\* rubric.serialize().
C1_WirePayloadKeys ==
  /\ last.op = "_serialize" => IsWirePayload(last.ret, questions[last.q])
  /\ last.op = "grade" =>
       /\ Len(last.sent) = 1
       /\ IsWirePayload(last.sent[1].params[1], questions[last.q])

\* C2: GradingCriteria(objective, w) with a member objective raises
\* ValidationError exactly when w <= 0 or 2w is not an integer, and otherwise
\* returns a criteria whose weight is w.
C2_WeightConstraint ==
  last.op = "GradingCriteria" =>
    LET w == last.args.weight
    IN  /\ last.outcome = "ValidationError" <=> ~ValidWeight(w)
        /\ last.outcome # "ValidationError" =>
             /\ last.outcome = "ok"
             /\ last.ret.weight = w
             /\ last.ret.objective = last.args.objective

\* A weight of 0.25 or 0.75 was refused and a weight of 0.5 accepted.
C2_Witness ==
  /\ nops = 3
  /\ calls[2].op = "GradingCriteria" /\ calls[2].args.weight = 1
  /\ calls[2].outcome = "ValidationError"
  /\ calls[3].args.weight = 0 /\ calls[3].outcome = "ValidationError"
  /\ last.args.weight = Scale \div 2 /\ last.outcome = "ok"

\* C3: add_criteria(O, w1) followed by add_criteria(O, w2) on the same
\* rubric, both succeeding, leaves the size as it was after the first call
\* and the weight stored for O equal to w2.
C3_ReplaceSameObjective ==
  (/\ nops >= 2
   /\ prev.op = "add_criteria" /\ prev.outcome = "ok"
   /\ last.op = "add_criteria" /\ last.outcome = "ok"
   /\ last.r = prev.r
   /\ last.args.objective = prev.args.objective)
  => /\ size(heap[last.r]) = size(before.heap[last.r])
     /\ last.args.objective \in DOMAIN heap[last.r].criteria
     /\ heap[last.r].criteria[last.args.objective].weight = last.args.weight

\* The same objective was added twice in a row with different weights.
C3_Witness ==
  /\ nops >= 2
  /\ prev.op = "add_criteria" /\ prev.outcome = "ok"
  /\ last.op = "add_criteria" /\ last.outcome = "ok"
  /\ last.r = prev.r
  /\ last.args.objective = prev.args.objective
  /\ last.args.weight # prev.args.weight

\* C4: a question constructed without a rubric argument has, right after
\* construction, a rubric of size 0 tagged Custom, whatever was called before.
C4_DefaultRubricIsEmpty ==
  (last.op = "ShortAnswerQuestion" /\ last.args.rubric = "omitted") =>
    /\ size(heap[questions[last.q].rubric]) = 0
    /\ rubric_type_of(heap[questions[last.q].rubric]) = "CUSTOM_RUBRIC"

\* C5: add_criteria on one question leaves unchanged the rubric of every
\* other question with which it was never handed a common Rubric object.
C5_ExclusiveOwnership ==
  (last.op = "add_criteria" /\ last.q # 0) =>
    \A q2 \in 1..Len(questions) :
      (q2 # last.q /\ ~SharedByCaller(last.q, q2)) =>
        SameCriteria(heap[questions[q2].rubric],
                     before.heap[before.questions[q2].rubric])

\* C6: _is_valid raises ValidationError exactly when the rubric is empty or
\* the body is empty or the example answer is empty; otherwise it returns
\* None; either way it changes no question and no rubric.
C6_ValidationGate ==
  last.op = "_is_valid" =>
    LET q == before.questions[last.q]
    IN  /\ last.outcome = "ValidationError" <=>
             \/ size(before.heap[q.rubric]) = 0
             \/ q.body = ""
             \/ q.example_answer = ""
        /\ last.outcome # "ValidationError" =>
             last.outcome = "ok" /\ last.ret = None
        /\ questions = before.questions
        /\ heap = before.heap

\* _is_valid refused a question whose rubric and body are populated and
\* whose example answer is empty.
C6_Witness ==
  /\ last.op = "_is_valid"
  /\ last.outcome = "ValidationError"
  /\ size(heap[questions[last.q].rubric]) > 0
  /\ questions[last.q].body # ""
  /\ questions[last.q].example_answer = ""

\* C7: Rubric.from_dict(r.serialize()) of a rubric r made from a preset
\* succeeds with a rubric of the same size and the same weight for every
\* objective, tagged Custom.
C7_PresetRoundTrip ==
  last.op = "Rubric.from_dict" =>
    \A r \in 2..Len(before.heap) :
      (FromPreset(r) /\ last.args.payload = Mapping(serialize(before.heap[r])))
      => /\ last.outcome = "ok"
         /\ last.r = Len(before.heap) + 1
         /\ size(heap[last.r]) = size(before.heap[r])
         /\ SameCriteria(heap[last.r], before.heap[r])
         /\ rubric_type_of(heap[last.r]) = "CUSTOM_RUBRIC"
         /\ heap[r] = before.heap[r]

\* A preset rubric with a tag other than Custom was serialized and read back.
C7_Witness ==
  /\ last.op = "Rubric.from_dict"
  /\ \E r \in 2..Len(before.heap) :
       /\ FromPreset(r)
       /\ rubric_type_of(before.heap[r]) # "CUSTOM_RUBRIC"
       /\ last.args.payload = Mapping(serialize(before.heap[r]))
       /\ size(heap[last.r]) >= 3

\* C8: Rubric.from_dict raises ValidationError and makes no rubric when the
\* payload is no mapping, when a label is outside the Objective vocabulary or
\* when a weight breaks the weight constraint; it succeeds only when every
\* label is known and every weight valid.
C8_FromDictRejects ==
  last.op = "Rubric.from_dict" =>
    LET p == last.args.payload
        bad == \/ ~p.mapping
               \/ \E l \in DOMAIN p.items :
                    l \notin Labels \/ ~ValidWeight(p.items[l])
    IN  /\ bad => /\ last.outcome = "ValidationError"
                  /\ last.r = 0
                  /\ heap = before.heap
        /\ last.outcome = "ok" => ~bad
        /\ last.outcome \in {"ok", "ValidationError"}

\* A payload with a known label next to an unknown one was refused.
C8_Witness ==
  /\ last.op = "Rubric.from_dict"
  /\ last.outcome = "ValidationError"
  /\ last.args.payload.mapping
  /\ \E l \in DOMAIN last.args.payload.items : l \in Labels
  /\ \E l \in DOMAIN last.args.payload.items : l \notin Labels

\* C9: add_criteria, on a rubric or through a question, raises
\* ValidationError when the objective is no member of Objective or the weight
\* is invalid, and a call that raised leaves every rubric and every question
\* as it was.
C9_FailedAddChangesNothing ==
  last.op = "add_criteria" =>
    /\ (last.args.objective \notin Objective
        \/ ~ValidWeight(last.args.weight))
       => last.outcome = "ValidationError"
    /\ last.outcome # "ok" => heap = before.heap /\ questions = before.questions

\* A question's add_criteria was refused for a str that is no Objective,
\* the question's rubric holding criteria already.
C9_Witness ==
  /\ last.op = "add_criteria"
  /\ last.q # 0
  /\ last.args.objective \notin Objective
  /\ ValidWeight(last.args.weight)
  /\ last.outcome = "ValidationError"
  /\ size(heap[last.r]) > 0

\* C10: set_rubric with an argument that is no Rubric raises ValidationError
\* and leaves the question as it was; with a Rubric it makes that object the
\* question's rubric and leaves body and example answer as they were.
C10_SetRubric ==
  last.op = "set_rubric" =>
    LET a == last.args.rubric
        q0 == before.questions[last.q]
        q1 == questions[last.q]
    IN  /\ ~a.isRubric => last.outcome = "ValidationError" /\ q1 = q0
        /\ a.isRubric =>
             /\ last.outcome = "ok"
             /\ q1.rubric = a.id
             /\ heap[q1.rubric] = before.heap[a.id]
        /\ q1.body = q0.body
        /\ q1.example_answer = q0.example_answer
        /\ heap = before.heap

\* set_rubric replaced the default rubric of a question by a preset rubric
\* the caller had made.
C10_Witness ==
  /\ last.op = "set_rubric" /\ last.outcome = "ok"
  /\ before.questions[last.q].rubric = DefaultRubric
  /\ questions[last.q].rubric # DefaultRubric
  /\ size(heap[questions[last.q].rubric]) >= 3


\* C11: for every preset other than Custom, Rubric.from_rubric_type(type)
\* makes a rubric whose size is the number of default pairs of the preset,
\* that holds every default objective with its default weight and no other
\* objective, and that is tagged with the type.
C11_PresetRubric ==
  (last.op = "Rubric.from_rubric_type"
   /\ last.args.rubric_type # "CUSTOM_RUBRIC") =>
    LET t == last.args.rubric_type
        d == _default_criteria(t)
        r == heap[last.r]
    IN  /\ last.outcome = "ok"
        /\ last.r = Len(before.heap) + 1
        /\ size(r) = Len(d)
        /\ \A i \in 1..Len(d) :
             /\ d[i][1] \in DOMAIN r.criteria
             /\ r.criteria[d[i][1]].objective = d[i][1]
             /\ r.criteria[d[i][1]].weight = d[i][2]
        /\ DOMAIN r.criteria = {d[i][1] : i \in 1..Len(d)}
        /\ rubric_type_of(r) = t

\* The Comprehensive preset, of four pairs, was built after another preset.
C11_Witness ==
  /\ nops >= 2
  /\ prev.op = "Rubric.from_rubric_type"
  /\ prev.args.rubric_type = "COMMUNICATION_RUBRIC"
  /\ last.op = "Rubric.from_rubric_type"
  /\ last.args.rubric_type = "COMPREHENSIVE_RUBRIC"
  /\ size(heap[last.r]) = 4
  /\ size(heap[prev.r]) = 3


\* C12: when the decoded response has an error key, with or without a result
\* key, the call raises and the exception carries the error payload as the
\* server sent it; otherwise the result field is looked up, and the call
\* returns exactly the pair (result.feedback, result.score), a missing field
\* ending the call with a KeyError and no returned value.
C12_ResponseHandling ==
  (last.op = "grade" /\ last.args.response.transport) =>
    LET d == last.args.response.data
    IN  /\ "error" \in DOMAIN d =>
             /\ last.outcome = "Exception"
             /\ last.error = d.error
             /\ last.ret = None
        /\ ("error" \notin DOMAIN d /\ "result" \in DOMAIN d) =>
             IF {"feedback", "score"} \subseteq DOMAIN d.result
             THEN /\ last.outcome = "ok"
                  /\ last.ret = <<d.result.feedback, d.result.score>>
             ELSE /\ last.outcome = "KeyError"
                  /\ last.ret = None
        /\ ("error" \notin DOMAIN d /\ "result" \notin DOMAIN d) =>
             /\ last.outcome = "KeyError"
             /\ last.ret = None

\* One grade call returned the pair of the result; the next, answered with
\* both an error and a result, raised with the error payload.
C12_Witness ==
  /\ nops >= 2
  /\ prev.op = "grade" /\ prev.outcome = "ok"
  /\ prev.ret = <<"good job", 9>>
  /\ last.op = "grade" /\ last.outcome = "Exception"
  /\ "result" \in DOMAIN last.args.response.data
  /\ last.error = [code |-> 400, message |-> "bad request"]


C15_SizeNeverDecreases ==
  /\ \A r \in 1..Len(before.heap) :
       /\ DOMAIN before.heap[r].criteria \subseteq DOMAIN heap[r].criteria
       /\ size(heap[r]) >= size(before.heap[r])
  /\ last.op = "add_criteria" =>
       LET r0 == before.heap[last.r]
           r1 == heap[last.r]
       IN  /\ size(r1) >= size(r0)
           /\ size(r1) <= size(r0) + 1
           /\ size(r1) = size(r0) + 1 =>
                /\ last.outcome = "ok"
                /\ last.args.objective \notin DOMAIN r0.criteria
           /\ \A r \in 1..Len(before.heap) :
                r # last.r => heap[r] = before.heap[r]

\* A preset rubric grew by one with a new objective, and a refused
\* add_criteria then left it at that size.
C15_Witness ==
  /\ nops >= 3
  /\ calls[Len(calls) - 2].op = "Rubric.from_rubric_type"
  /\ prev.op = "add_criteria" /\ prev.outcome = "ok"
  /\ prev.r = calls[Len(calls) - 2].r
  /\ last.op = "add_criteria" /\ last.outcome = "ValidationError"
  /\ last.r = prev.r
  /\ size(heap[last.r]) =
       Len(_default_criteria(calls[Len(calls) - 2].args.rubric_type)) + 1
  /\ size(heap[last.r]) = size(before.heap[last.r])


\* C16: ShortAnswerQuestion.from_dict(q._serialize()) of a question q whose
\* rubric holds only valid criteria succeeds with a new question of the same
\* body and the same example answer, whose rubric has the same size and the
\* same weight for every objective.
C16_QuestionRoundTrip ==
  last.op = "ShortAnswerQuestion.from_dict" =>
    \A q \in 1..Len(before.questions) :
      (/\ last.args.payload = _serialize(before.questions[q], before.heap)
       /\ \A o \in DOMAIN before.heap[before.questions[q].rubric].criteria :
            ValidWeight(before.heap[before.questions[q].rubric]
                          .criteria[o].weight))
      => /\ last.outcome = "ok"
         /\ last.q = Len(before.questions) + 1
         /\ questions[last.q].body = before.questions[q].body
         /\ questions[last.q].example_answer =
              before.questions[q].example_answer
         /\ size(heap[questions[last.q].rubric]) =
              size(before.heap[before.questions[q].rubric])
         /\ SameCriteria(heap[questions[last.q].rubric],
                         before.heap[before.questions[q].rubric])


\* C17: in every state reached by making rubrics with Rubric.empty,
\* Rubric.from_rubric_type or Rubric.from_dict and calling add_criteria on
\* them, successfully or not, every criteria a rubric stores is stored under
\* its own objective, a member of Objective, and has a weight greater than 0
\* that is a multiple of 0.5.
C17_StoredCriteriaValid ==
  \A r \in 1..Len(heap) :
    \A o \in DOMAIN heap[r].criteria :
      /\ o \in Objective
      /\ heap[r].criteria[o].objective = o
      /\ ValidWeight(heap[r].criteria[o].weight)

\* A rubric of two criteria read by from_dict took the weight 0.5 for one
\* of them and then refused a weight of 0 for it.
C17_Witness ==
  /\ nops >= 3
  /\ calls[Len(calls) - 2].op = "Rubric.from_dict"
  /\ calls[Len(calls) - 2].outcome = "ok"
  /\ prev.op = "add_criteria" /\ prev.outcome = "ok"
  /\ prev.r = calls[Len(calls) - 2].r
  /\ prev.args.weight = Scale \div 2
  /\ last.op = "add_criteria" /\ last.outcome = "ValidationError"
  /\ last.r = prev.r
  /\ last.args.objective = prev.args.objective
  /\ last.args.weight = 0
  /\ size(heap[last.r]) = 2
  /\ heap[last.r].criteria[last.args.objective].weight = Scale \div 2

====
